---------------------------- MODULE Spec2Model ----------------------------
(***************************************************************************)
(* A model of femtovg's text shaper (src/text/shaper.rs): the script and   *)
(* direction segmenter, the word splitter, the LRU shape cache, and the    *)
(* layout pass.                                                            *)
(*                                                                         *)
(* A text is a sequence of characters.  A character is named by a string:  *)
(*   "a"     U+0061  Latin      bidi L    utf-8 61                         *)
(*   "b"     U+0062  Latin      bidi L    utf-8 62                         *)
(*   " "     U+0020  Common     bidi WS   utf-8 20                         *)
(*   "!"     U+0021  Common     bidi ON   utf-8 21                         *)
(*   "meem"  U+0645  Arabic     bidi AL   utf-8 D9 85                      *)
(*   "alef"  U+05D0  Hebrew     bidi R    utf-8 D7 90                      *)
(*   "acute" U+0301  Inherited  bidi NSM  utf-8 CC 81                      *)
(*   "rlm"   U+200F  Common     bidi R    utf-8 E2 80 8F                   *)
(*                                                                         *)
(* Lengths (f32 in the source) are integers here; the font tables below    *)
(* are chosen so that every division the code performs is exact.           *)
(***************************************************************************)
EXTENDS Integers, Sequences, FiniteSets, TLC

VARIABLES
    cache,     \* Shaper.cache: sequence of [key, val], most recently used first
    fonts,     \* the font store: the set of registered font ids
    stale,     \* TRUE when the font set changed since the last clear_cache()
    last,      \* record of the last operation and, for shape(), of its outcome
    segText,   \* segmenter: the text unicode_scripts() was called on
    segIter,   \* segmenter: UnicodeScriptIterator.iter, the characters left
    segRuns,   \* segmenter: the runs next() has yielded so far
    segDone    \* segmenter: next() has returned None

vars == <<cache, fonts, stale, last, segText, segIter, segRuns, segDone>>
shaperVars == <<cache, fonts, stale, last>>
segVars == <<segText, segIter, segRuns, segDone>>

-----------------------------------------------------------------------------
(* Bounds of the model *)

\* LRU_CACHE_CAPACITY is 1000 in the source (shaper.rs:32); the model scales
\* it down so that eviction happens within a few calls.
LRU_CACHE_CAPACITY == 2

\* ShapingId.text_hash is a 64-bit FNV-1a hash; the model keeps its low
\* HashBits bits (FNV-1a's xor and multiply commute with truncation, so this
\* is exactly the low part of the real hash).
HashBits == 8

\* Longest text given to the segmenter on its own.
MaxSegLen == 4

-----------------------------------------------------------------------------
(* Characters: unicode_script::UnicodeScript::script, unicode_bidi::bidi_class,
   and the utf-8 encoding *)

Chars == {"a", "b", " ", "!", "meem", "alef", "acute", "rlm"}

ScriptOf(c) ==
    CASE c \in {"a", "b"} -> "Latin"
      [] c \in {" ", "!", "rlm"} -> "Common"
      [] c = "meem" -> "Arabic"
      [] c = "alef" -> "Hebrew"
      [] c = "acute" -> "Inherited"

BidiClassOf(c) ==
    CASE c \in {"a", "b"} -> "L"
      [] c = " " -> "WS"
      [] c = "!" -> "ON"
      [] c = "meem" -> "AL"
      [] c \in {"alef", "rlm"} -> "R"
      [] c = "acute" -> "NSM"

Utf8(c) ==
    CASE c = "a" -> <<97>>
      [] c = "b" -> <<98>>
      [] c = " " -> <<32>>
      [] c = "!" -> <<33>>
      [] c = "meem" -> <<217, 133>>
      [] c = "alef" -> <<215, 144>>
      [] c = "acute" -> <<204, 129>>
      [] c = "rlm" -> <<226, 128, 143>>

RECURSIVE Concat(_)
Concat(seqs) == IF seqs = <<>> THEN <<>> ELSE Head(seqs) \o Concat(Tail(seqs))

Reverse(s) == [i \in 1..Len(s) |-> s[Len(s) + 1 - i]]

RECURSIVE SeqsUpTo(_, _)
SeqsUpTo(S, n) ==
    IF n = 0 THEN {<<>>}
    ELSE LET shorter == SeqsUpTo(S, n - 1)
         IN  shorter \cup {Append(s, c) : s \in {t \in shorter : Len(t) = n - 1}, c \in S}

-----------------------------------------------------------------------------
(* Segmentation: impl From<BidiClass> for Direction, UnicodeScriptIterator *)

\* a conversion whose default is right-to-left
DirectionDefaultRtl(class) ==
    CASE class = "L" -> "Ltr"
      [] class = "R" -> "Rtl"
      [] class = "AL" -> "Rtl"
      [] OTHER -> "Rtl"

Direction(class) ==
    CASE class = "L" -> "Ltr"
      [] class = "R" -> "Rtl"
      [] class = "AL" -> "Rtl"
      [] OTHER -> "Ltr"

IsWildcard(script) == script \in {"Common", "Inherited"}

\* `let next_script = match next_script {..}`: a wildcard character takes the
\* script of the run
NextScript(script, next) ==
    IF IsWildcard(ScriptOf(next)) THEN script ELSE ScriptOf(next)

\* `script = match script {..}`: a run whose script is a wildcard adopts
AdoptScript(script, next_script) ==
    IF IsWildcard(script) THEN next_script ELSE script

\* ExtendRun with the adoption step (`script = match script {..}`) left out
RECURSIVE ExtendRunNoAdopt(_, _, _)
ExtendRunNoAdopt(script, text, rest) ==
    IF rest = <<>> THEN [script |-> script, text |-> text, rest |-> rest]
    ELSE CHOOSE r \in
           {IF next_script = script
            THEN ExtendRunNoAdopt(script, Append(text, Head(rest)), Tail(rest))
            ELSE [script |-> script, text |-> text, rest |-> rest] :
              next_script \in {NextScript(script, Head(rest))}} : TRUE

\* ExtendRun with the `else { break; }` left out: the run takes every character
RECURSIVE ExtendRunNoBreak(_, _, _)
ExtendRunNoBreak(script, text, rest) ==
    IF rest = <<>> THEN [script |-> script, text |-> text, rest |-> rest]
    ELSE CHOOSE r \in
           {ExtendRunNoBreak(script2, Append(text, Head(rest)), Tail(rest)) :
              script2 \in {AdoptScript(script, NextScript(script, Head(rest)))}} : TRUE

\* the `while let Some(next) = self.iter.peek()` loop of next(); each step's
\* values are bound once, in a one-element set
RECURSIVE ExtendRun(_, _, _)
ExtendRun(script, text, rest) ==
    IF rest = <<>> THEN [script |-> script, text |-> text, rest |-> rest]
    ELSE CHOOSE r \in
           {IF NextScript(script, Head(rest)) = script2
            THEN ExtendRun(script2, Append(text, Head(rest)), Tail(rest))
            ELSE [script |-> script2, text |-> text, rest |-> rest] :
              script2 \in {AdoptScript(script, NextScript(script, Head(rest)))}} : TRUE

\* a next() that takes the direction from the last character of the run
ScriptIterNextLastDirection(iter) ==
    CHOOSE r \in
      {[script |-> run.script,
        direction |-> Direction(BidiClassOf(run.text[Len(run.text)])),
        text |-> run.text,
        rest |-> run.rest] :
          run \in {ExtendRun(ScriptOf(Head(iter)), <<Head(iter)>>, Tail(iter))}} : TRUE

\* UnicodeScriptIterator::next on a non-empty iterator: the run and what is left
ScriptIterNext(iter) ==
    CHOOSE r \in
      {[script |-> run.script,
        direction |-> Direction(BidiClassOf(Head(iter))),
        text |-> run.text,
        rest |-> run.rest] :
          run \in {ExtendRun(ScriptOf(Head(iter)), <<Head(iter)>>, Tail(iter))}} : TRUE

\* text.unicode_scripts() collected: every run, in order
RECURSIVE UnicodeScripts(_)
UnicodeScripts(text) ==
    IF text = <<>> THEN <<>>
    ELSE CHOOSE runs \in
           {<<[script |-> r.script, direction |-> r.direction, text |-> r.text]>>
                \o UnicodeScripts(r.rest) : r \in {ScriptIterNext(text)}} : TRUE

\* a split that drops the space (str::split)
RECURSIVE SplitFromExclusive(_, _)
SplitFromExclusive(text, word) ==
    IF text = <<>> THEN <<word>>
    ELSE IF Head(text) = " "
         THEN <<word>> \o SplitFromExclusive(Tail(text), <<>>)
         ELSE SplitFromExclusive(Tail(text), Append(word, Head(text)))

\* str::split_inclusive(' '): every piece but the last ends with the space
RECURSIVE SplitFrom(_, _)
SplitFrom(text, word) ==
    IF text = <<>> THEN (IF word = <<>> THEN <<>> ELSE <<word>>)
    ELSE IF Head(text) = " "
         THEN <<Append(word, " ")>> \o SplitFrom(Tail(text), <<>>)
         ELSE SplitFrom(Tail(text), Append(word, Head(text)))

SplitInclusive(text) == SplitFrom(text, <<>>)

\* the words of a run, never reversed
RunWordsNoReverse(run) == SplitInclusive(run.text)

\* the words of a run in the order shape() visits them
RunWords(run) ==
    LET words == SplitInclusive(run.text)
    IN  IF run.direction = "Rtl" THEN Reverse(words) ELSE words

-----------------------------------------------------------------------------
(* ShapingId: the cache key *)

\* the low 16 bits of the FNV-1a 64-bit offset basis 0xcbf29ce484222325 and
\* prime 0x100000001b3 (FnvHasher::default)
FNV_OFFSET_LOW == 8997
FNV_PRIME_LOW == 435

HashMod == 2 ^ HashBits

RECURSIVE BitXor(_, _)
BitXor(a, b) ==
    IF a = 0 THEN b
    ELSE IF b = 0 THEN a
    ELSE (((a % 2) + (b % 2)) % 2) + 2 * BitXor(a \div 2, b \div 2)

\* FnvHasher::write: hash ^= byte; hash = hash.wrapping_mul(prime)
RECURSIVE FnvWrite(_, _)
FnvWrite(hash, bytes) ==
    IF bytes = <<>> THEN hash
    ELSE FnvWrite((BitXor(hash, Head(bytes) % HashMod) * (FNV_PRIME_LOW % HashMod)) % HashMod,
                  Tail(bytes))

\* text.hash(&mut hasher); hasher.finish(): str hashes its bytes, then 0xff
TextHash(word) ==
    FnvWrite(FnvWrite(FNV_OFFSET_LOW % HashMod, Concat([i \in 1..Len(word) |-> Utf8(word[i])])),
             <<255>>)

\* a key that also takes the alignment in
ShapingIdWithAlign(style, word) ==
    [size |-> style.size, text_hash |-> TextHash(word), weight |-> style.weight,
     width_class |-> style.width_class, font_style |-> style.font_style,
     align |-> style.align]

\* ShapingId::new
ShapingId(style, word) ==
    [size |-> style.size,
     text_hash |-> TextHash(word),
     weight |-> style.weight,
     width_class |-> style.width_class,
     font_style |-> style.font_style]

-----------------------------------------------------------------------------
(* The LRU cache (lru::LruCache), most recently used entry first *)

CacheHas(c, key) == \E i \in 1..Len(c) : c[i].key = key

CacheIndex(c, key) == CHOOSE i \in 1..Len(c) : c[i].key = key

CacheWithout(c, key) == SelectSeq(c, LAMBDA e : e.key # key)

\* LruCache::peek: the value, recency untouched
CachePeek(c, key) == c[CacheIndex(c, key)].val

\* a put that stores successes only
CachePutOkOnly(c, key, val) ==
    IF ~val.ok THEN c
    ELSE IF CacheHas(c, key)
    THEN <<[key |-> key, val |-> val]>> \o CacheWithout(c, key)
    ELSE IF Len(c) >= LRU_CACHE_CAPACITY
         THEN <<[key |-> key, val |-> val]>> \o SubSeq(c, 1, LRU_CACHE_CAPACITY - 1)
         ELSE <<[key |-> key, val |-> val]>> \o c

\* a put that never evicts
CachePutNoEvict(c, key, val) == <<[key |-> key, val |-> val]>> \o CacheWithout(c, key)

\* LruCache::put: the entry becomes the most recent one; a new key put into a
\* full cache evicts the least recently used entry
CachePut(c, key, val) ==
    IF CacheHas(c, key)
    THEN <<[key |-> key, val |-> val]>> \o CacheWithout(c, key)
    ELSE IF Len(c) >= LRU_CACHE_CAPACITY
         THEN <<[key |-> key, val |-> val]>> \o SubSeq(c, 1, LRU_CACHE_CAPACITY - 1)
         ELSE <<[key |-> key, val |-> val]>> \o c

\* a get that leaves the recency order alone, as peek does
CacheGetNoTouch(c, key) == c

\* a get that takes the entry out of the cache (LruCache::pop)
CachePop(c, key) == CacheWithout(c, key)

\* LruCache::get: the entry becomes the most recent one
CacheGet(c, key) ==
    IF CacheHas(c, key)
    THEN <<c[CacheIndex(c, key)]>> \o CacheWithout(c, key)
    ELSE c

\* a clear that drops the least recently used entry only
CacheClearOldest(c) == IF c = <<>> THEN c ELSE SubSeq(c, 1, Len(c) - 1)

\* a clear that keeps the cached successes
CacheClearFailures(c) == SelectSeq(c, LAMBDA e : e.val.ok)

\* LruCache::clear
CacheClear(c) == <<>>

-----------------------------------------------------------------------------
(* Fonts: the tables of the two fonts of the model.  Font 1 ("sans") has
   glyphs for a, b, space and "!"; font 2 ("naskh") for meem, space, "!" and
   a.  Neither has substitution or positioning tables. *)

FontIds == {1, 2}

FontFamily(f) == IF f = 1 THEN "sans" ELSE "naskh"

\* the font's cmap: the glyph index of a character, 0 when it has none
GlyphIndex(f, c) ==
    CASE f = 1 /\ c = "a" -> 36
      [] f = 1 /\ c = "b" -> 37
      [] f = 1 /\ c = " " -> 3
      [] f = 1 /\ c = "!" -> 4
      [] f = 2 /\ c = "meem" -> 5
      [] f = 2 /\ c = " " -> 3
      [] f = 2 /\ c = "!" -> 4
      [] f = 2 /\ c = "a" -> 7
      [] OTHER -> 0

\* the horizontal advance of a glyph, per unit of font size
GlyphAdvance(f, g) ==
    CASE g = 0 -> 5
      [] g = 3 -> 4
      [] g = 4 -> 2
      [] g = 5 -> 8
      [] OTHER -> 5 + f

\* Font::glyph_bounding_box per unit of font size; the space has no outline
HasBBox(f, g) == g # 3
BBoxWidth(f, g) == IF g = 4 THEN 1 ELSE 4 + f
BBoxHeight(f, g) == IF g = 4 THEN 7 ELSE 5
BBoxXMin(f, g) == IF g = 4 THEN 1 ELSE 0
BBoxYMax(f, g) == IF g = 4 THEN 7 ELSE 5

\* Font::ascender, Font::descender, Font::height at a size
Ascender(f, size) == (IF f = 1 THEN 4 ELSE 6) * size
Descender(f, size) == (0 - 2) * size
FontHeight(f, size) == (IF f = 1 THEN 7 ELSE 9) * size

-----------------------------------------------------------------------------
(* The closure shape() hands to find_font, and find_font *)

DefaultGlyph ==
    [x |-> 0, y |-> 0, c |-> "", index |-> 0, font_id |-> 0, codepoint |-> 0,
     width |-> 0, height |-> 0, advance_x |-> 0, advance_y |-> 0,
     offset_x |-> 0, offset_y |-> 0, bearing_x |-> 0, bearing_y |-> 0,
     calc_offset_x |-> 0, calc_offset_y |-> 0]

\* the characters the engine hides (default ignorable) and those it treats
\* as combining marks
IsDefaultIgnorable(c) == c = "rlm"
IsMark(c) == c = "acute"

\* hb::shape on a font without layout tables, in visual order (reversed for
\* a right-to-left buffer), one glyph per character:
\*  - a default-ignorable character becomes the font's space glyph with no
\*    advance (both fonts have a space glyph);
\*  - a combining mark that is the whole word gets its nominal glyph with no
\*    advance, shifted back by the glyph's advance except in an Arabic or
\*    Hebrew run;
\*  - any other character gets its nominal glyph and that glyph's advance.
\* A mark in a word with other characters is placed by the engine's fallback
\* mark positioning, at offsets that are fractions of a unit of length; these
\* whole-number lengths cannot hold them, so HbShape has no value for such a
\* word.
HbShape(f, word, size, direction, script) ==
    LET glyph(c) ==
            CASE IsDefaultIgnorable(c) ->
                   [codepoint |-> GlyphIndex(f, " "), x_advance |-> 0,
                    y_advance |-> 0, x_offset |-> 0, y_offset |-> 0]
              [] IsMark(c) /\ Len(word) = 1 ->
                   [codepoint |-> GlyphIndex(f, c), x_advance |-> 0, y_advance |-> 0,
                    x_offset |-> IF script \in {"Arabic", "Hebrew"} THEN 0
                                 ELSE 0 - GlyphAdvance(f, GlyphIndex(f, c)) * size,
                    y_offset |-> 0]
              [] ~IsDefaultIgnorable(c) /\ ~IsMark(c) ->
                   [codepoint |-> GlyphIndex(f, c),
                    x_advance |-> GlyphAdvance(f, GlyphIndex(f, c)) * size,
                    y_advance |-> 0, x_offset |-> 0, y_offset |-> 0]
        logical == [i \in 1..Len(word) |-> glyph(word[i])]
    IN  IF direction = "Rtl" THEN Reverse(logical) ELSE logical

\* the closure of shape(): (has_missing, items)
ShapeWithFont(f, word, style, direction, script) ==
    LET out == HbShape(f, word, style.size, direction, script)
        item(i) ==
            LET g == out[i].codepoint
                base == [DefaultGlyph EXCEPT
                            !.c = word[i],
                            !.font_id = f,
                            !.codepoint = g,
                            !.advance_x = out[i].x_advance,
                            !.advance_y = out[i].y_advance,
                            !.offset_x = out[i].x_offset,
                            !.offset_y = out[i].y_offset]
            IN  IF HasBBox(f, g)
                THEN [base EXCEPT
                         !.width = BBoxWidth(f, g) * style.size,
                         !.height = BBoxHeight(f, g) * style.size,
                         !.bearing_x = BBoxXMin(f, g) * style.size,
                         !.bearing_y = BBoxYMax(f, g) * style.size]
                ELSE base
    IN  [has_missing |-> \E i \in 1..Len(out) : out[i].codepoint = 0,
         items |-> [i \in 1..Len(out) |-> item(i)]]

\* the fonts find_font tries, in order: the registered fonts of the style's
\* families in preference order, then every registered font
RECURSIVE FamilyFonts(_, _)
FamilyFonts(names, store) ==
    IF names = <<>> THEN <<>>
    ELSE (IF \E f \in store : FontFamily(f) = Head(names)
          THEN <<CHOOSE f \in store : FontFamily(f) = Head(names)>>
          ELSE <<>>) \o FamilyFonts(Tail(names), store)

RECURSIVE SetToSeq(_)
SetToSeq(S) ==
    IF S = {} THEN <<>>
    ELSE LET m == CHOOSE x \in S : \A y \in S : x <= y
         IN  <<m>> \o SetToSeq(S \ {m})

Candidates(style, store) == FamilyFonts(style.family_names, store) \o SetToSeq(store)

\* try each candidate until one shapes the word with no missing glyph; when
\* none does, the last attempt is the result
RECURSIVE TryFonts(_, _, _, _, _)
TryFonts(cands, word, style, direction, script) ==
    CHOOSE res \in
      {IF ~r.has_missing \/ Len(cands) = 1
       THEN [ok |-> TRUE, items |-> r.items, err |-> "none"]
       ELSE TryFonts(Tail(cands), word, style, direction, script) :
         r \in {ShapeWithFont(Head(cands), word, style, direction, script)}} : TRUE

\* FontDb::find_font with the closure of shape()
FindFont(word, style, direction, script, store) ==
    CHOOSE res \in
      {IF cands = <<>>
       THEN [ok |-> FALSE, items |-> <<>>, err |-> "ShapingFailed"]
       ELSE TryFonts(cands, word, style, direction, script) :
         cands \in {Candidates(style, store)}} : TRUE

-----------------------------------------------------------------------------
(* Shaper::layout *)

\* GLYPH_PADDING of text/mod.rs
GLYPH_PADDING == 2

Min(a, b) == IF a < b THEN a ELSE b
Max(a, b) == IF a > b THEN a ELSE b

RECURSIVE TotalAdvance(_, _)
TotalAdvance(glyphs, letter_spacing) ==
    IF glyphs = <<>> THEN 0
    ELSE Head(glyphs).advance_x + letter_spacing + TotalAdvance(Tail(glyphs), letter_spacing)

LinePadding(style) ==
    GLYPH_PADDING + style.blur * 2
        + (IF style.render_style.kind = "Stroke" THEN style.render_style.width ELSE 0)

LineWidth(style) ==
    IF style.render_style.kind = "Stroke" THEN style.render_style.width ELSE 0

\* a baseline offset whose Bottom is taken from the ascender
BaselineOffsetBottomAscender(f, style) ==
    CASE style.baseline = "Top" -> Ascender(f, style.size)
      [] style.baseline = "Middle" -> (Ascender(f, style.size) + Descender(f, style.size)) \div 2
      [] style.baseline = "Alphabetic" -> 0
      [] style.baseline = "Bottom" -> Ascender(f, style.size)

BaselineOffset(f, style) ==
    CASE style.baseline = "Top" -> Ascender(f, style.size)
      [] style.baseline = "Middle" -> (Ascender(f, style.size) + Descender(f, style.size)) \div 2
      [] style.baseline = "Alphabetic" -> 0
      [] style.baseline = "Bottom" -> Descender(f, style.size)

\* glyph.calc_offset_x and glyph.calc_offset_y
CalcOffsetX(g, style) ==
    g.offset_x + g.bearing_x - LinePadding(style) - LineWidth(style) \div 2
CalcOffsetY(g, style) ==
    g.offset_y - g.bearing_y - LinePadding(style) - LineWidth(style) \div 2

\* a loop body whose cursor advances by advance_x without the letter spacing
PlaceGlyphNoSpacing(g, cursor_x, cursor_y, height, y, style) ==
    LET xpos == cursor_x + CalcOffsetX(g, style)
        ypos == cursor_y + CalcOffsetY(g, style)
        offset_y == BaselineOffset(g.font_id, style)
    IN  [glyph |-> [g EXCEPT !.calc_offset_x = CalcOffsetX(g, style),
                             !.calc_offset_y = CalcOffsetY(g, style),
                             !.x = xpos,
                             !.y = ypos + offset_y],
         cursor_x |-> cursor_x + g.advance_x,
         cursor_y |-> cursor_y + g.advance_y,
         height |-> Max(height, FontHeight(g.font_id, style.size)),
         y |-> Min(y, ypos + offset_y)]

\* a loop body that keeps the y of the glyph it placed instead of the minimum
PlaceGlyphLastY(g, cursor_x, cursor_y, height, y, style) ==
    LET xpos == cursor_x + CalcOffsetX(g, style)
        ypos == cursor_y + CalcOffsetY(g, style)
        offset_y == BaselineOffset(g.font_id, style)
    IN  [glyph |-> [g EXCEPT !.calc_offset_x = CalcOffsetX(g, style),
                             !.calc_offset_y = CalcOffsetY(g, style),
                             !.x = xpos,
                             !.y = ypos + offset_y],
         cursor_x |-> cursor_x + g.advance_x + style.letter_spacing,
         cursor_y |-> cursor_y + g.advance_y,
         height |-> Max(height, FontHeight(g.font_id, style.size)),
         y |-> ypos + offset_y]

\* the body of the glyph loop for a glyph whose font is in the store: the
\* placed glyph and the cursor, height and y the loop goes on with
PlaceGlyph(g, cursor_x, cursor_y, height, y, style) ==
    LET xpos == cursor_x + CalcOffsetX(g, style)
        ypos == cursor_y + CalcOffsetY(g, style)
        offset_y == BaselineOffset(g.font_id, style)
    IN  [glyph |-> [g EXCEPT !.calc_offset_x = CalcOffsetX(g, style),
                             !.calc_offset_y = CalcOffsetY(g, style),
                             !.x = xpos,
                             !.y = ypos + offset_y],
         cursor_x |-> cursor_x + g.advance_x + style.letter_spacing,
         cursor_y |-> cursor_y + g.advance_y,
         height |-> Max(height, FontHeight(g.font_id, style.size)),
         y |-> Min(y, ypos + offset_y)]

\* a glyph loop that skips the glyphs whose font is not in the store
RECURSIVE LayoutGlyphsSkipMissing(_, _, _, _, _, _, _, _)
LayoutGlyphsSkipMissing(todo, done, cursor_x, cursor_y, height, y, store, style) ==
    IF todo = <<>>
    THEN [ok |-> TRUE, err |-> "none", glyphs |-> done, height |-> height, y |-> y]
    ELSE IF Head(todo).font_id \notin store
    THEN LayoutGlyphsSkipMissing(Tail(todo), Append(done, Head(todo)), cursor_x, cursor_y,
                                 height, y, store, style)
    ELSE CHOOSE r \in
           {LayoutGlyphsSkipMissing(Tail(todo), Append(done, p.glyph), p.cursor_x,
                                    p.cursor_y, p.height, p.y, store, style) :
              p \in {PlaceGlyph(Head(todo), cursor_x, cursor_y, height, y, style)}} : TRUE

\* the `for glyph in &mut res.glyphs` loop: `todo` are the glyphs still to
\* place, `done` the placed ones; a glyph whose font is not in the store ends
\* it with NoFontFound
RECURSIVE LayoutGlyphs(_, _, _, _, _, _, _, _)
LayoutGlyphs(todo, done, cursor_x, cursor_y, height, y, store, style) ==
    IF todo = <<>>
    THEN [ok |-> TRUE, err |-> "none", glyphs |-> done, height |-> height, y |-> y]
    ELSE IF Head(todo).font_id \notin store
    THEN [ok |-> FALSE, err |-> "NoFontFound", glyphs |-> done \o todo,
          height |-> height, y |-> y]
    ELSE CHOOSE r \in
           {LayoutGlyphs(Tail(todo), Append(done, p.glyph), p.cursor_x, p.cursor_y,
                         p.height, p.y, store, style) :
              p \in {PlaceGlyph(Head(todo), cursor_x, cursor_y, height, y, style)}} : TRUE

\* an alignment whose Right shifts by half the width, as Center does
AlignXRightHalf(x, width, style) ==
    CASE style.align = "Center" -> x - width \div 2
      [] style.align = "Right" -> x - width \div 2
      [] OTHER -> x

\* `match style.align {..}`: where the cursor starts
AlignX(x, width, style) ==
    CASE style.align = "Center" -> x - width \div 2
      [] style.align = "Right" -> x - width
      [] OTHER -> x

\* layout once res.width is known
LayoutWidth(x, y, width, store, glyphs, style) ==
    CHOOSE r \in
      {[ok |-> loop.ok,
        err |-> loop.err,
        res |-> [x |-> AlignX(x, width, style), y |-> loop.y, width |-> width,
                 height |-> loop.height, glyphs |-> loop.glyphs]] :
          loop \in {LayoutGlyphs(glyphs, <<>>, AlignX(x, width, style), y, 0, y,
                                 store, style)}} : TRUE

\* Shaper::layout on the TextLayout holding `glyphs`: whether it returned Ok,
\* and the TextLayout it leaves when it did
Layout(x, y, store, glyphs, style) ==
    CHOOSE r \in
      {LayoutWidth(x, y, width, store, glyphs, style) :
          width \in {TotalAdvance(glyphs, style.letter_spacing)}} : TRUE

-----------------------------------------------------------------------------
(* Shaper::shape *)

\* a failure pushes a placeholder glyph instead of nothing
WordGlyphsPlaceholder(val) == IF val.ok THEN <<val.items>> ELSE << <<DefaultGlyph>> >>

\* `if let Ok(items) = result { words_glyphs.push(items.clone()) }`: what the
\* value found in the cache adds to words_glyphs
WordGlyphs(val) == IF val.ok THEN <<val.items>> ELSE <<>>

\* what a word's lookup logs: the word, its key, whether peek found the key,
\* what get then returned and, for an Ok, the glyph list it held
LogEntry(c, hit, word, key, direction, script) ==
    [word |-> word, key |-> key, hit |-> hit,
     got |-> IF ~CacheHas(c, key) THEN "none"
             ELSE IF CachePeek(c, key).ok THEN "ok" ELSE "err",
     items |-> IF CacheHas(c, key) /\ CachePeek(c, key).ok
               THEN CachePeek(c, key).items ELSE <<>>,
     direction |-> direction, script |-> script]

\* `if let Some(result) = self.cache.get(&shaping_id) {..}` on the cache as
\* the peek and the put left it
ShapeWordGet(st, filled, hit, word, key, direction, script) ==
    [cache |-> CacheGet(filled, key),
     words_glyphs |-> IF CacheHas(filled, key)
                      THEN st.words_glyphs \o WordGlyphs(CachePeek(filled, key))
                      ELSE st.words_glyphs,
     log |-> Append(st.log, LogEntry(filled, hit, word, key, direction, script))]

\* a lookup that asks the resolver and stores its result whether the key is
\* cached or not
ShapeWordKeyAlwaysPut(st, word, key, style, direction, script, store) ==
    CHOOSE r \in
      {ShapeWordGet(st, filled, CacheHas(st.cache, key), word, key, direction, script) :
          filled \in {CachePut(st.cache, key,
                               FindFont(word, style, direction, script, store))}} : TRUE

\* `if self.cache.peek(&shaping_id).is_none() {..}`, then the get
ShapeWordKey(st, word, key, style, direction, script, store) ==
    CHOOSE r \in
      {ShapeWordGet(st, filled, CacheHas(st.cache, key), word, key, direction, script) :
          filled \in {IF CacheHas(st.cache, key) THEN st.cache
                      ELSE CachePut(st.cache, key,
                                    FindFont(word, style, direction, script, store))}} : TRUE

\* the body of `for word in words`: st is [cache, words_glyphs, log]
ShapeWord(st, word, style, direction, script, store) ==
    CHOOSE r \in
      {ShapeWordKey(st, word, key, style, direction, script, store) :
          key \in {ShapingId(style, word)}} : TRUE

RECURSIVE ShapeWords(_, _, _, _, _, _)
ShapeWords(st, words, style, direction, script, store) ==
    IF words = <<>> THEN st
    ELSE CHOOSE r \in
           {ShapeWords(st2, Tail(words), style, direction, script, store) :
              st2 \in {ShapeWord(st, Head(words), style, direction, script, store)}} : TRUE

\* a loop over the runs that puts the glyphs of a run before those of the
\* runs shaped so far
RECURSIVE ShapeRunsPrepend(_, _, _, _)
ShapeRunsPrepend(acc, runs, style, store) ==
    IF runs = <<>> THEN acc
    ELSE CHOOSE r \in
           {ShapeRunsPrepend([cache |-> st.cache,
                              glyphs |-> Concat(st.words_glyphs) \o acc.glyphs,
                              log |-> st.log],
                             Tail(runs), style, store) :
              st \in {ShapeWords([cache |-> acc.cache, words_glyphs |-> <<>>,
                                  log |-> acc.log],
                                 RunWords(Head(runs)), style, Head(runs).direction,
                                 Head(runs).script, store)}} : TRUE

\* the body of `for (script, direction, subtext) in text.unicode_scripts()`:
\* acc is [cache, glyphs (result.glyphs), log]
RECURSIVE ShapeRuns(_, _, _, _)
ShapeRuns(acc, runs, style, store) ==
    IF runs = <<>> THEN acc
    ELSE CHOOSE r \in
           {ShapeRuns([cache |-> st.cache,
                       glyphs |-> acc.glyphs \o Concat(st.words_glyphs),
                       log |-> st.log],
                      Tail(runs), style, store) :
              st \in {ShapeWords([cache |-> acc.cache, words_glyphs |-> <<>>,
                                  log |-> acc.log],
                                 RunWords(Head(runs)), style, Head(runs).direction,
                                 Head(runs).script, store)}} : TRUE

\* `self.layout(..)?; Ok(result)`: the Result of shape(): value holds the
\* TextLayout of an Ok, and nothing for an Err
ShapeResult(lay) ==
    IF lay.ok THEN [ok |-> TRUE, err |-> "none", value |-> <<lay.res>>]
    ELSE [ok |-> FALSE, err |-> lay.err, value |-> <<>>]

\* the runs of a text shaped from cache c
ShapeText(c, style, text, store) ==
    CHOOSE r \in
      {ShapeRuns([cache |-> c, glyphs |-> <<>>, log |-> <<>>], runs, style, store) :
          runs \in {UnicodeScripts(text)}} : TRUE

\* a shape() that returns the failure of a word to its caller
ShapePropagatesFailure(c, x, y, store, style, text) ==
    CHOOSE r \in
      {[cache |-> acc.cache,
        result |-> IF \E i \in 1..Len(acc.log) : acc.log[i].got = "err"
                   THEN [ok |-> FALSE, err |-> "ShapingFailed", value |-> <<>>]
                   ELSE ShapeResult(Layout(x, y, store, acc.glyphs, style)),
        flat |-> acc.glyphs,
        log |-> acc.log] :
          acc \in {ShapeText(c, style, text, store)}} : TRUE

\* a shape() that puts the cache back as it found it when layout fails
ShapeRollsBack(c, x, y, store, style, text) ==
    CHOOSE r \in
      {[cache |-> IF Layout(x, y, store, acc.glyphs, style).ok THEN acc.cache ELSE c,
        result |-> ShapeResult(Layout(x, y, store, acc.glyphs, style)),
        flat |-> acc.glyphs,
        log |-> acc.log] :
          acc \in {ShapeText(c, style, text, store)}} : TRUE

\* Shaper::shape: the cache it leaves, the Result it returns, the glyphs it
\* handed to layout and, word by word, what the cache did
Shape(c, x, y, store, style, text) ==
    CHOOSE r \in
      {[cache |-> acc.cache,
        result |-> ShapeResult(Layout(x, y, store, acc.glyphs, style)),
        flat |-> acc.glyphs,
        log |-> acc.log] :
          acc \in {ShapeText(c, style, text, store)}} : TRUE

-----------------------------------------------------------------------------
(* The shaper and its font store: the calls a program makes *)

BaseStyle ==
    [size |-> 10, weight |-> "Regular", width_class |-> "Normal", font_style |-> "Normal",
     family_names |-> <<>>, align |-> "Left", baseline |-> "Alphabetic",
     letter_spacing |-> 0, blur |-> 0, render_style |-> [kind |-> "Fill", width |-> 0]]

Styles ==
    {BaseStyle,
     [BaseStyle EXCEPT !.align = "Center", !.baseline = "Top", !.letter_spacing = 2,
                       !.blur = 1, !.render_style = [kind |-> "Stroke", width |-> 2]],
     [BaseStyle EXCEPT !.size = 20]}

Texts ==
    {<<"b", " ", "a">>,
     <<"a", " ", "a", " ">>,
     <<"a", "meem", "b", "meem", "a">>}

Origins == {<<100, 50>>}

SameKeyFields(s1, s2) ==
    /\ s1.size = s2.size
    /\ s1.weight = s2.weight
    /\ s1.width_class = s2.width_class
    /\ s1.font_style = s2.font_style

Init ==
    /\ cache = <<>>
    /\ fonts = {}
    /\ stale = FALSE
    /\ last = [op |-> "init"]
    /\ segText = <<>>
    /\ segIter = <<>>
    /\ segRuns = <<>>
    /\ segDone = FALSE

\* shaper.shape(x, y, &mut fontdb, &style, text)
ShapeCall(o, style, text) ==
    \E r \in {Shape(cache, o[1], o[2], fonts, style, text)} :
        LET follows == /\ last.op = "shape"
                       /\ last.text = text
                       /\ SameKeyFields(last.style, style)
        IN  /\ cache' = r.cache
            /\ last' = [op |-> "shape", style |-> style, text |-> text, origin |-> o,
                        stale |-> stale,
                        afterClear |-> (last.op = "clear"),
                        follows |-> follows,
                        prevStyle |-> IF follows THEN last.style ELSE style,
                        prevResult |-> IF follows THEN last.result ELSE r.result,
                        result |-> r.result, flat |-> r.flat, log |-> r.log]
            /\ UNCHANGED <<fonts, stale, segVars>>

\* shaper.clear_cache()
ClearCache ==
    /\ cache' = CacheClear(cache)
    /\ stale' = FALSE
    /\ last' = [op |-> "clear"]
    /\ UNCHANGED <<fonts, segVars>>

\* a font is added to the font store
AddFont(f) ==
    /\ f \notin fonts
    /\ fonts' = fonts \cup {f}
    /\ stale' = TRUE
    /\ last' = [op |-> "font"]
    /\ UNCHANGED <<cache, segVars>>

\* a font is dropped from the font store
RemoveFont(f) ==
    /\ f \in fonts
    /\ fonts' = fonts \ {f}
    /\ stale' = TRUE
    /\ last' = [op |-> "font"]
    /\ UNCHANGED <<cache, segVars>>

Next ==
    \/ \E o \in Origins, style \in Styles, text \in Texts : ShapeCall(o, style, text)
    \/ ClearCache
    \/ \E f \in FontIds : AddFont(f)
    \/ \E f \in FontIds : RemoveFont(f)

Spec == Init /\ [][Next]_vars

-----------------------------------------------------------------------------
(* Shaper properties *)

LastShape == last.op = "shape"

\* the words of the last shape() call: their indices in visiting order
LogIdx == 1..Len(last.log)

\* the distinct cache keys among the words of the last call
LogKeys == {last.log[i].key : i \in LogIdx}

\* the words for which the last call invoked the font resolver
Misses == {i \in LogIdx : ~last.log[i].hit}

AllHits == \A i \in LogIdx : last.log[i].hit

WithinCapacity == Cardinality(LogKeys) <= LRU_CACHE_CAPACITY

\* the characters of a glyph sequence
GlyphChars(glyphs) == [i \in 1..Len(glyphs) |-> glyphs[i].c]

\* the glyphs of a Result: those of its TextLayout, none for an Err
ResultGlyphs(result) == IF result.ok THEN result.value[1].glyphs ELSE <<>>

\* the glyphs handed to layout all have a font of the store
FlatFontsKnown == \A i \in 1..Len(last.flat) : last.flat[i].font_id \in fonts

\* the last call repeats the call before it: same style, same text, and no
\* font change or clear_cache in between
Repeats == LastShape /\ last.follows /\ last.prevStyle = last.style

\* C1 as stated: a repeated call returns what the first returned, every word
\* of it a cache hit
C1_Original == Repeats => (last.result = last.prevResult /\ AllHits)

\* C1: a shape() call that repeats the previous one (same style and text,
\* font store unchanged, no clear_cache in between) returns the same result
\* and invokes the resolver for no word, provided the text has at most
\* LRU_CACHE_CAPACITY distinct cache keys.
C1_RepeatIsAllHits ==
    (Repeats /\ WithinCapacity) => (last.result = last.prevResult /\ AllHits)

\* a repeated call of two words or more that returned glyphs
C1_Witness ==
    /\ Repeats
    /\ WithinCapacity
    /\ Len(last.log) >= 2
    /\ last.result.ok
    /\ Len(ResultGlyphs(last.result)) >= 2
    /\ AllHits

\* the last call follows a call with the same text whose style agrees with
\* its own on size, weight, width class and font style
FollowsSameKeyFields == LastShape /\ last.follows

\* every word of the last call has the key it has under the previous style
SameKeysAsBefore ==
    \A i \in LogIdx : ShapingId(last.prevStyle, last.log[i].word) = last.log[i].key

\* C2 as stated: a call that differs from the one before it in layout-only
\* style fields has the same keys and misses on no word
C2_Original == FollowsSameKeyFields => (SameKeysAsBefore /\ AllHits)

\* C2: the key depends only on size, weight, width class, font style and the
\* word: a call that follows one with the same text and the same four fields
\* has the same keys whatever its alignment, baseline, letter spacing, blur
\* and render style, and every word of it is a cache hit provided the text
\* has at most LRU_CACHE_CAPACITY distinct keys.
C2_LayoutFieldsNotInKey ==
    FollowsSameKeyFields => (SameKeysAsBefore /\ (WithinCapacity => AllHits))

\* a call of two words or more that differs from the one before it in every
\* layout-only field, and hits on every word
C2_Witness ==
    /\ FollowsSameKeyFields
    /\ last.prevStyle.align # last.style.align
    /\ last.prevStyle.baseline # last.style.baseline
    /\ last.prevStyle.letter_spacing # last.style.letter_spacing
    /\ last.prevStyle.blur # last.style.blur
    /\ last.prevStyle.render_style # last.style.render_style
    /\ Len(last.log) >= 2
    /\ AllHits

\* the keys the cache holds
CacheKeys(c) == {c[i].key : i \in 1..Len(c)}

\* the distinct keys the last call inserted
MissedKeys == {last.log[i].key : i \in Misses}

\* a shape() call leaves the cache holding every key it held or inserted,
\* up to LRU_CACHE_CAPACITY of them
ShapeFillsToCapacity ==
    last'.op = "shape" =>
        Len(cache') = Min(LRU_CACHE_CAPACITY,
                          Cardinality(CacheKeys(cache) \cup MissedKeys'))

\* C3: the cache never holds more than LRU_CACHE_CAPACITY entries and no key
\* twice; a shape() call leaves it holding the keys it held or inserted, cut
\* to LRU_CACHE_CAPACITY, so a call that inserted more than
\* LRU_CACHE_CAPACITY distinct keys leaves it holding exactly
\* LRU_CACHE_CAPACITY.
C3_CacheBounded ==
    /\ [](/\ Len(cache) <= LRU_CACHE_CAPACITY
          /\ \A i, j \in 1..Len(cache) : cache[i].key = cache[j].key => i = j
          /\ (LastShape /\ Cardinality(MissedKeys) > LRU_CACHE_CAPACITY)
                => Len(cache) = LRU_CACHE_CAPACITY)
    /\ [][ShapeFillsToCapacity]_vars

\* a call that inserted more distinct keys than the cache holds
C3_Witness ==
    /\ LastShape
    /\ Cardinality(MissedKeys) > LRU_CACHE_CAPACITY
    /\ Len(cache) = LRU_CACHE_CAPACITY

\* every glyph in the cache has a font of the store
CachedFontsKnown ==
    \A e \in 1..Len(cache) :
        \A i \in 1..Len(cache[e].val.items) : cache[e].val.items[i].font_id \in fonts

\* C4: while clear_cache() has been called since the last change of the font
\* set, every cached glyph has a font of the store; a shape() call made then
\* returns Ok, and no glyph it returns has a font that is not in the store.
C4_ClearedCacheHasNoStaleFont ==
    /\ ~stale => CachedFontsKnown
    /\ (LastShape /\ ~last.stale) =>
          /\ last.result.ok
          /\ \A i \in 1..Len(ResultGlyphs(last.result)) :
                ResultGlyphs(last.result)[i].font_id \in fonts

\* a call on a non-empty store (so the font set has changed, and the cache was
\* cleared after that) that served a word from the cache and returned glyphs
C4_Witness ==
    /\ LastShape
    /\ ~last.stale
    /\ fonts # {}
    /\ \E i \in LogIdx : last.log[i].hit
    /\ Len(ResultGlyphs(last.result)) >= 2

\* the first visit of every key of the last call was a miss
EveryKeyMissedFirst ==
    \A i \in LogIdx :
        (\A j \in 1..(i - 1) : last.log[j].key # last.log[i].key) => ~last.log[i].hit

\* C5 as stated: after clear_cache() the cache is empty and the next call
\* invokes the resolver exactly once per distinct key
C5_Original ==
    /\ last.op = "clear" => cache = <<>>
    /\ (LastShape /\ last.afterClear) => Cardinality(Misses) = Cardinality(LogKeys)

\* C5: right after clear_cache() the cache is empty, and the shape() call that
\* follows invokes the resolver at the first word of every distinct key: once
\* per distinct key when the text has at most LRU_CACHE_CAPACITY of them, and
\* at least once per key otherwise.
C5_ClearDropsEverything ==
    /\ last.op = "clear" => cache = <<>>
    /\ (LastShape /\ last.afterClear) =>
          /\ EveryKeyMissedFirst
          /\ Cardinality(Misses) >= Cardinality(LogKeys)
          /\ WithinCapacity => Cardinality(Misses) = Cardinality(LogKeys)

\* a call right after clear_cache() whose text repeats a key
C5_Witness ==
    /\ LastShape
    /\ last.afterClear
    /\ WithinCapacity
    /\ Len(last.log) > Cardinality(LogKeys)
    /\ Cardinality(Misses) = Cardinality(LogKeys)

\* C6: when a glyph handed to layout has a font that is not in the store,
\* shape() returns Err(NoFontFound) and no TextLayout.
C6_MissingFontFailsWhole ==
    (LastShape /\ ~FlatFontsKnown) =>
        /\ ~last.result.ok
        /\ last.result.err = "NoFontFound"
        /\ last.result.value = <<>>

\* a call whose first glyph has a font of the store and a later one has not
C6_Witness ==
    /\ LastShape
    /\ Len(last.flat) >= 2
    /\ last.flat[1].font_id \in fonts
    /\ \E i \in 2..Len(last.flat) : last.flat[i].font_id \notin fonts
    /\ ~last.result.ok

\* the keys of a cache, most recently used first
KeySeq(c) == [i \in 1..Len(c) |-> c[i].key]

\* the keys of the words a call looked up, in the order it looked them up
AccessSeq(log) == [i \in 1..Len(log) |-> log[i].key]

\* a sequence without its repetitions: every element at its first place
RECURSIVE DistinctInOrder(_, _)
DistinctInOrder(seq, acc) ==
    IF seq = <<>> THEN acc
    ELSE IF \E i \in 1..Len(acc) : acc[i] = Head(seq)
         THEN DistinctInOrder(Tail(seq), acc)
         ELSE DistinctInOrder(Tail(seq), Append(acc, Head(seq)))

\* the keys by last access, latest first: those a call looked up, from its
\* last lookup back to its first, then those of the cache it started from
ByLastAccess(c, log) == DistinctInOrder(Reverse(AccessSeq(log)) \o KeySeq(c), <<>>)

\* the last miss of every key still cached left the resolver's result there
MissesAreStored ==
    \A i \in Misses :
        LET e == last.log[i]
            r == FindFont(e.word, last.style, e.direction, e.script, fonts)
        IN  /\ e.got = (IF r.ok THEN "ok" ELSE "err")
            /\ ((\A j \in Misses : j > i => last.log[j].key # e.key) /\ CacheHas(cache, e.key))
                  => CachePeek(cache, e.key) = r

\* the keys the cache holds when a call that started from cache c has looked
\* up the words of log: the LRU_CACHE_CAPACITY keys accessed last
HeldAfter(c, log) ==
    LET keys == ByLastAccess(c, log)
    IN  {keys[n] : n \in 1..Min(LRU_CACHE_CAPACITY, Len(keys))}

\* what is stored under key k when a call of this style on this store, which
\* started from cache c, has looked up the words of log: what the resolver
\* returned at the last miss of k among them, or else what c held
StoredAfter(c, log, k, style, store) ==
    LET missed == {j \in 1..Len(log) : ~log[j].hit /\ log[j].key = k}
    IN  IF missed # {}
        THEN LET j == CHOOSE m \in missed : \A n \in missed : n <= m
             IN  FindFont(log[j].word, style, log[j].direction, log[j].script, store)
        ELSE CachePeek(c, k)

\* in a step that is a shape() call: a word is a hit, with no resolver call,
\* exactly when its key is held at its lookup; and a word whose key then
\* holds a failure, cached before the call or by an earlier word of the call,
\* is a hit and a failure again
CachedFailureIsServed ==
    (last'.op = "shape") =>
        \A i \in 1..Len(last'.log) :
            LET e == last'.log[i]
                before == SubSeq(last'.log, 1, i - 1)
                held == e.key \in HeldAfter(cache, before)
            IN  /\ e.hit <=> held
                /\ (held /\ ~StoredAfter(cache, before, e.key, last'.style, fonts).ok)
                      => (e.hit /\ e.got = "err" /\ e.items = <<>>)

\* C7: what the resolver returns on a miss is stored under the key, a failure
\* as well as a glyph list; and once a failure is cached for a key, every
\* later lookup of that key by shape(), in the call that cached it or in a
\* later one, is a hit that calls no resolver, until the entry is evicted or
\* clear_cache() is called.
C7_FailuresAreCached ==
    /\ [](LastShape => MissesAreStored)
    /\ [][CachedFailureIsServed]_vars

\* a call, on a store that has fonts, that served a cached failure, to a word
\* looked up after a miss of the same call that the resolver could shape
C7_Witness ==
    /\ LastShape
    /\ fonts # {}
    /\ \E i \in LogIdx : last.log[i].hit /\ last.log[i].got = "err"
    /\ \E i, j \in LogIdx : j < i /\ ~last.log[j].hit /\ last.log[j].got = "ok"
                               /\ last.log[i].hit /\ last.log[i].got = "err"

\* the words of the last call that were not failures, concatenated
RECURSIVE OkWordChars(_)
OkWordChars(log) ==
    IF log = <<>> THEN <<>>
    ELSE (IF Head(log).got = "ok" THEN Head(log).word ELSE <<>>) \o OkWordChars(Tail(log))

SomeWordFailed == \E i \in LogIdx : last.log[i].got = "err"

\* C8 as stated: when a word fails, shape() returns Ok with the glyphs of the
\* other words
C8_Original ==
    (LastShape /\ SomeWordFailed) =>
        /\ last.result.ok
        /\ GlyphChars(ResultGlyphs(last.result)) = OkWordChars(last.log)

\* C8: a word whose cached result is a failure adds no glyph, and every other
\* word adds its own: the glyphs handed to layout are those of the words that
\* did not fail, in order; shape() then returns Ok with exactly these glyphs
\* unless one of them has a font that is not in the store (NoFontFound).
C8_FailedWordAddsNothing ==
    LastShape =>
        /\ GlyphChars(last.flat) = OkWordChars(last.log)
        /\ (SomeWordFailed /\ FlatFontsKnown) =>
              /\ last.result.ok
              /\ GlyphChars(ResultGlyphs(last.result)) = OkWordChars(last.log)

\* a call with a failed word and a shaped one, which returned Ok
C8_Witness ==
    /\ LastShape
    /\ SomeWordFailed
    /\ \E i \in LogIdx : last.log[i].got = "ok"
    /\ last.result.ok
    /\ Len(ResultGlyphs(last.result)) >= 1

\* C9 as stated: a word's shaping failure and a missing font are both
\* returned to the caller
C9_Original ==
    LastShape =>
        /\ SomeWordFailed => ~last.result.ok
        /\ ~FlatFontsKnown => (~last.result.ok /\ last.result.err = "NoFontFound")

\* C9: the only error shape() returns is NoFontFound, and it returns it
\* exactly when a glyph's font is missing from the store; the shaping failure
\* of a word is not returned to the caller.
C9_OnlyNoFontFoundIsReturned ==
    LastShape =>
        /\ last.result.ok <=> FlatFontsKnown
        /\ ~last.result.ok => last.result.err = "NoFontFound"

\* a call in which every word failed and which returned Ok, and no glyph
C9_Witness ==
    /\ LastShape
    /\ Len(last.log) >= 2
    /\ \A i \in LogIdx : last.log[i].got = "err"
    /\ last.result.ok
    /\ ResultGlyphs(last.result) = <<>>

\* a shape() call leaves in the cache the LRU_CACHE_CAPACITY keys accessed
\* last, in the order of their last access
ShapeKeepsLatestAccessed ==
    last'.op = "shape" =>
        KeySeq(cache') =
            SubSeq(ByLastAccess(cache, last'.log), 1,
                   Min(LRU_CACHE_CAPACITY, Len(ByLastAccess(cache, last'.log))))

\* C18: every word lookup of shape(), a hit as well as a miss that fills the
\* cache, makes its key the most recently accessed one, and a key inserted
\* into a full cache evicts exactly the least recently accessed entry: after
\* every call the cache holds the LRU_CACHE_CAPACITY keys accessed last,
\* ordered by their last access, so an entry hit more recently than another
\* is never evicted before it.
C18_EvictsLeastRecentlyAccessed == [][ShapeKeepsLatestAccessed]_vars

\* a call that inserted key K, then key J, then hit K, then inserted a third
\* key into the full cache: J, inserted after K, is gone and K is still there
C18_Witness ==
    /\ LastShape
    /\ Len(cache) = LRU_CACHE_CAPACITY
    /\ \E i, j, k, l \in LogIdx :
          /\ i < j /\ j < k /\ k < l
          /\ ~last.log[i].hit
          /\ ~last.log[j].hit
          /\ last.log[k].hit
          /\ ~last.log[l].hit
          /\ last.log[k].key = last.log[i].key
          /\ last.log[j].key # last.log[i].key
          /\ last.log[l].key \notin {last.log[i].key, last.log[j].key}
          /\ CacheHas(cache, last.log[i].key)
          /\ ~CacheHas(cache, last.log[j].key)

-----------------------------------------------------------------------------
(* The loop of shape() over the runs of a text, on its own: a step is one
   next() call and, for the run it yields, the split into words *)

SegTexts == SeqsUpTo(Chars, MaxSegLen)

SegInit ==
    /\ segText \in SegTexts
    /\ segIter = segText
    /\ segRuns = <<>>
    /\ segDone = FALSE
    /\ cache = <<>>
    /\ fonts = {}
    /\ stale = FALSE
    /\ last = [op |-> "init"]

SegNextSome ==
    /\ ~segDone
    /\ segIter # <<>>
    /\ \E r \in {ScriptIterNext(segIter)} :
           /\ segRuns' = Append(segRuns,
                  [script |-> r.script, direction |-> r.direction, text |-> r.text,
                   split |-> SplitInclusive(r.text), words |-> RunWords(r)])
           /\ segIter' = r.rest
    /\ UNCHANGED <<segText, segDone, shaperVars>>

SegNextNone ==
    /\ ~segDone
    /\ segIter = <<>>
    /\ segDone' = TRUE
    /\ UNCHANGED <<segText, segIter, segRuns, shaperVars>>

SegNext == SegNextSome \/ SegNextNone

SegSpec == SegInit /\ [][SegNext]_vars

-----------------------------------------------------------------------------
(* Segmenter properties *)

RECURSIVE SumLen(_)
SumLen(runs) == IF runs = <<>> THEN 0 ELSE Len(Head(runs).text) + SumLen(Tail(runs))

\* the part of segText that next() has consumed so far
SegConsumed == SumLen(segRuns)

\* the positions of segText at which a yielded run starts, or the next one will
SegRunStarts == {1 + SumLen(SubSeq(segRuns, 1, k)) : k \in 0..Len(segRuns)}

\* the start of the run that holds position i (i <= SegConsumed)
SegStartOf(i) == CHOOSE s \in SegRunStarts :
                    s <= i /\ \A t \in SegRunStarts : t <= i => t <= s

\* the concrete scripts met in segText[from..to]
ConcreteIn(from, to) ==
    {ScriptOf(segText[j]) : j \in {k \in from..to : ~IsWildcard(ScriptOf(segText[k]))}}

\* C10: the runs partition the text (their concatenation, followed by what is
\* left in the iterator, is the input), every run is non-empty, and a run
\* starts at a character exactly when that character has a concrete script
\* and the run before it has already met a different concrete script; so a
\* Common or Inherited character never starts a run, and neither does a
\* concrete character that follows only wildcards.
C10_SegmenterPartitions ==
    /\ Concat([k \in 1..Len(segRuns) |-> segRuns[k].text]) \o segIter = segText
    /\ \A k \in 1..Len(segRuns) : segRuns[k].text # <<>>
    /\ \A i \in 2..Len(segText) :
          i <= SegConsumed + 1 =>
             LET c == ScriptOf(segText[i])
                 met == ConcreteIn(SegStartOf(i - 1), i - 1)
             IN  (i \in SegRunStarts) <=> (~IsWildcard(c) /\ met # {} /\ c \notin met)

\* a finished segmentation with two runs whose first run starts with a
\* wildcard and adopts a concrete script, and holds a later wildcard too
C10_Witness ==
    /\ segDone
    /\ Len(segRuns) = 2
    /\ Len(segRuns[1].text) = 3
    /\ IsWildcard(ScriptOf(segRuns[1].text[1]))
    /\ ~IsWildcard(ScriptOf(segRuns[1].text[2]))
    /\ IsWildcard(ScriptOf(segRuns[1].text[3]))
    /\ segRuns[1].script = ScriptOf(segRuns[1].text[2])


\* the direction a bidi class stands for: right-to-left for R and AL,
\* left-to-right for L and for every other class
ClassDirection(c) == IF BidiClassOf(c) \in {"R", "AL"} THEN "Rtl" ELSE "Ltr"

\* the positions of a run's text
RunIdx(k) == 1..Len(segRuns[k].text)

\* C11: every run's direction is the one the bidi class of its first
\* character stands for (L: LTR; R, AL: RTL; any other class: LTR), whatever
\* the classes of its later characters; and a run boundary is only ever put
\* before a character whose concrete script differs from the concrete script
\* the run has met, never before a character because of its bidi class.
C11_DirectionFromFirstChar ==
    /\ \A k \in 1..Len(segRuns) :
          segRuns[k].direction = ClassDirection(segRuns[k].text[1])
    /\ \A i \in 2..Len(segText) :
          (i <= SegConsumed + 1 /\ i \in SegRunStarts) =>
             LET met == ConcreteIn(SegStartOf(i - 1), i - 1)
             IN  /\ ~IsWildcard(ScriptOf(segText[i]))
                 /\ met # {}
                 /\ ScriptOf(segText[i]) \notin met

\* a finished segmentation with a left-to-right run that holds a character of
\* class R between two characters of class L
C11_Witness ==
    /\ segDone
    /\ \E k \in 1..Len(segRuns) :
          /\ segRuns[k].direction = "Ltr"
          /\ Len(segRuns[k].text) >= 3
          /\ BidiClassOf(segRuns[k].text[1]) = "L"
          /\ BidiClassOf(segRuns[k].text[2]) = "R"
          /\ BidiClassOf(segRuns[k].text[3]) = "L"

\* C12 as stated: no run holds a character of class L together with one of
\* class R or AL, and every character of class L, R or AL of a run stands for
\* the direction of the run
C12_Original ==
    \A k \in 1..Len(segRuns) :
        /\ ~(\E i, j \in RunIdx(k) :
                /\ BidiClassOf(segRuns[k].text[i]) = "L"
                /\ BidiClassOf(segRuns[k].text[j]) \in {"R", "AL"})
        /\ \A i \in RunIdx(k) :
              BidiClassOf(segRuns[k].text[i]) \in {"L", "R", "AL"} =>
                  ClassDirection(segRuns[k].text[i]) = segRuns[k].direction

\* C12: every run reports one direction, that of its first character, and
\* holds characters of at most one concrete script, which is the script it
\* reports; the direction of its later characters is not looked at.
C12_OneScriptOneReportedDirection ==
    \A k \in 1..Len(segRuns) :
        /\ segRuns[k].direction \in {"Ltr", "Rtl"}
        /\ segRuns[k].direction = ClassDirection(segRuns[k].text[1])
        /\ \A i \in RunIdx(k) :
              \/ IsWildcard(ScriptOf(segRuns[k].text[i]))
              \/ ScriptOf(segRuns[k].text[i]) = segRuns[k].script
        /\ (\A i \in RunIdx(k) : IsWildcard(ScriptOf(segRuns[k].text[i]))) =>
              segRuns[k].script = ScriptOf(segRuns[k].text[1])

\* a finished segmentation with a run of Arabic reported left-to-right: it
\* starts with a Common character and holds a letter of class AL
C12_Witness ==
    /\ segDone
    /\ \E k \in 1..Len(segRuns) :
          /\ segRuns[k].script = "Arabic"
          /\ segRuns[k].direction = "Ltr"
          /\ \E i \in RunIdx(k) : BidiClassOf(segRuns[k].text[i]) = "AL"

\* every character of the text has script Common or Inherited
AllWildcard == \A i \in 1..Len(segText) : IsWildcard(ScriptOf(segText[i]))

\* C13 as stated: the empty text has no run, and a text of wildcard
\* characters has one run, left-to-right whatever the bidi classes
C13_Original ==
    segDone =>
        /\ segText = <<>> => segRuns = <<>>
        /\ (segText # <<>> /\ AllWildcard) =>
              (Len(segRuns) = 1 /\ segRuns[1].direction = "Ltr")

\* C13: the empty text has no run; a non-empty text of Common and Inherited
\* characters only is one run holding the whole text, whose direction is that
\* of the first character: left-to-right unless its bidi class is R or AL.
C13_WildcardTextIsOneRun ==
    segDone =>
        /\ segText = <<>> => segRuns = <<>>
        /\ (segText # <<>> /\ AllWildcard) =>
              /\ Len(segRuns) = 1
              /\ segRuns[1].text = segText
              /\ BidiClassOf(segText[1]) \notin {"R", "AL"} => segRuns[1].direction = "Ltr"
              /\ BidiClassOf(segText[1]) \in {"R", "AL"} => segRuns[1].direction = "Rtl"

\* a finished segmentation of a text of both Common and Inherited characters
\* with a character of class R after the first: one left-to-right run
C13_Witness ==
    /\ segDone
    /\ Len(segText) >= 3
    /\ AllWildcard
    /\ \E i \in 1..Len(segText) : ScriptOf(segText[i]) = "Inherited"
    /\ \E i \in 2..Len(segText) : BidiClassOf(segText[i]) = "R"
    /\ Len(segRuns) = 1
    /\ segRuns[1].direction = "Ltr"

-----------------------------------------------------------------------------
(* Word splitter properties *)

\* C14: the split of a run is lossless and space-inclusive: the words, in
\* split order, concatenate to the run's text; no word is empty; a space is
\* only ever the last character of a word; and every word but the last ends
\* with a space.
C14_SplitIsInclusiveAndLossless ==
    \A k \in 1..Len(segRuns) :
        LET w == segRuns[k].split
        IN  /\ Concat(w) = segRuns[k].text
            /\ \A i \in 1..Len(w) : w[i] # <<>>
            /\ \A i \in 1..Len(w) : \A j \in 1..(Len(w[i]) - 1) : w[i][j] # " "
            /\ \A i \in 1..(Len(w) - 1) : w[i][Len(w[i])] = " "

\* a run split into three words: the second is a lone space, the third has
\* no space
C14_Witness ==
    \E k \in 1..Len(segRuns) :
        /\ Len(segRuns[k].split) = 3
        /\ Len(segRuns[k].split[1]) = 2
        /\ segRuns[k].split[2] = <<" ">>
        /\ segRuns[k].split[3] # <<" ">>

\* C15: the words shape() visits in a right-to-left run are the words of the
\* split in reverse order, each word as the split gave it (so the reversed
\* sequence concatenates back to the run's text); in a left-to-right run they
\* are the words of the split in split order.
C15_RtlWordsReversed ==
    \A k \in 1..Len(segRuns) :
        LET r == segRuns[k]
            n == Len(r.split)
        IN  /\ Len(r.words) = n
            /\ r.direction = "Rtl" =>
                  /\ \A i \in 1..n : r.words[i] = r.split[n + 1 - i]
                  /\ Concat([i \in 1..n |-> r.words[n + 1 - i]]) = r.text
            /\ r.direction = "Ltr" => r.words = r.split

\* a right-to-left run of three words, the first unlike the last
C15_Witness ==
    \E k \in 1..Len(segRuns) :
        /\ segRuns[k].direction = "Rtl"
        /\ Len(segRuns[k].words) = 3
        /\ segRuns[k].words[1] # segRuns[k].words[3]
        /\ segRuns[k].words[3] = segRuns[k].split[1]


-----------------------------------------------------------------------------
(* Layout under every alignment and baseline: a program that registers its
   fonts, then shapes a text, then shapes it again under another style *)

LayStyles ==
    {[BaseStyle EXCEPT !.align = a, !.baseline = b, !.letter_spacing = v.letter_spacing,
                       !.blur = v.blur, !.render_style = v.render_style] :
        a \in {"Left", "Center", "Right"},
        b \in {"Top", "Middle", "Alphabetic", "Bottom"},
        v \in {[letter_spacing |-> 0, blur |-> 0,
                render_style |-> [kind |-> "Fill", width |-> 0]],
               [letter_spacing |-> 2, blur |-> 1,
                render_style |-> [kind |-> "Stroke", width |-> 2]]}}

LayTexts ==
    {<<"b", " ", "a">>,
     <<"a", "meem", "!">>,
     <<" ", "meem">>}

LayOrigins == {<<100, 50>>, <<0, 0>>}

\* a font is added before the first shape() call
RegisterFont(f) ==
    /\ last.op # "shape"
    /\ AddFont(f)

\* the first shape() call, or a second one of the same text at the same origin
LayShape(o, style, text) ==
    /\ \/ last.op # "shape"
       \/ /\ last.op = "shape"
          /\ ~last.follows
          /\ last.text = text
          /\ last.origin = o
    /\ ShapeCall(o, style, text)

LayNext ==
    \/ \E f \in FontIds : RegisterFont(f)
    \/ \E o \in LayOrigins, style \in LayStyles, text \in LayTexts : LayShape(o, style, text)

LaySpec == Init /\ [][LayNext]_vars

-----------------------------------------------------------------------------
(* Layout properties *)

\* the TextLayout of the last call and of the call before it
LastLayout == last.result.value[1]
PrevLayout == last.prevResult.value[1]

\* the sum of advance_x + letter_spacing over the first n glyphs
RECURSIVE AdvanceSum(_, _, _)
AdvanceSum(glyphs, letter_spacing, n) ==
    IF n = 0 THEN 0
    ELSE AdvanceSum(glyphs, letter_spacing, n - 1) + glyphs[n].advance_x + letter_spacing

\* W of the last call: the total advance of the glyphs it laid out
LastW == AdvanceSum(last.flat, last.style.letter_spacing, Len(last.flat))

\* C16: the TextLayout returned for glyphs of total advance
\* W = sum of (advance_x + letter_spacing), laid out at x, has width W, and
\* its x is x for Align::Left, x - W/2 for Align::Center and x - W for
\* Align::Right.
C16_AlignmentShiftsOrigin ==
    (LastShape /\ last.result.ok) =>
        /\ LastLayout.width = LastW
        /\ last.style.align = "Left" => LastLayout.x = last.origin[1]
        /\ last.style.align = "Center" => 2 * (last.origin[1] - LastLayout.x) = LastW
        /\ last.style.align = "Right" => LastLayout.x = last.origin[1] - LastW

\* a right-aligned layout of glyphs with letter spacing, made after a centred
\* layout of the same text at the same place
C16_Witness ==
    /\ LastShape
    /\ last.follows
    /\ last.result.ok
    /\ last.prevResult.ok
    /\ last.style.align = "Right"
    /\ last.prevStyle.align = "Center"
    /\ last.style.letter_spacing > 0
    /\ Len(last.flat) >= 3
    /\ LastLayout.x = last.origin[1] - LastW
    /\ PrevLayout.x > LastLayout.x

\* what a baseline adds to the y of a glyph of font f at a size
BaselineDelta(baseline, f, size) ==
    CASE baseline = "Top" -> Ascender(f, size)
      [] baseline = "Middle" -> (Ascender(f, size) + Descender(f, size)) \div 2
      [] baseline = "Alphabetic" -> 0
      [] baseline = "Bottom" -> Descender(f, size)

\* the last call repeats the call before it under another baseline only
OnlyBaselineChanged ==
    /\ LastShape
    /\ last.follows
    /\ last.result.ok
    /\ last.prevResult.ok
    /\ [last.prevStyle EXCEPT !.baseline = last.style.baseline] = last.style

\* C17: two layouts of the same glyphs at the same origin and size that
\* differ in the baseline only give every glyph the same x, and y's that
\* differ by the difference of what the two baselines add: ascender for Top,
\* (ascender + descender)/2 for Middle, 0 for Alphabetic and descender for
\* Bottom, of the glyph's font at the size; so Top and Bottom differ by
\* exactly ascender - descender.
C17_BaselineShiftsGlyphs ==
    OnlyBaselineChanged =>
        /\ Len(LastLayout.glyphs) = Len(PrevLayout.glyphs)
        /\ \A i \in 1..Len(LastLayout.glyphs) :
              LET g == LastLayout.glyphs[i]
                  h == PrevLayout.glyphs[i]
              IN  /\ g.x = h.x
                  /\ h.y - g.y = BaselineDelta(last.prevStyle.baseline, g.font_id, last.style.size)
                                 - BaselineDelta(last.style.baseline, g.font_id, last.style.size)
                  /\ (last.prevStyle.baseline = "Top" /\ last.style.baseline = "Bottom") =>
                        h.y - g.y = Ascender(g.font_id, last.style.size)
                                    - Descender(g.font_id, last.style.size)

\* a Bottom layout made after a Top layout of the same glyphs, which are of
\* two fonts with different ascenders
C17_Witness ==
    /\ OnlyBaselineChanged
    /\ last.prevStyle.baseline = "Top"
    /\ last.style.baseline = "Bottom"
    /\ \E i, j \in 1..Len(LastLayout.glyphs) :
          /\ LastLayout.glyphs[i].font_id # LastLayout.glyphs[j].font_id
          /\ PrevLayout.glyphs[i].y - LastLayout.glyphs[i].y
               # PrevLayout.glyphs[j].y - LastLayout.glyphs[j].y


-----------------------------------------------------------------------------
(* The cache as a memoization: a program that registers its fonts and then
   shapes texts under styles that differ in the family preference only *)

MemoStyles ==
    {BaseStyle,
     [BaseStyle EXCEPT !.family_names = <<"naskh">>]}

\* both fonts have a glyph for "a"; the word "! " is in the left-to-right
\* run of the second text, which has a right-to-left run after it, and in the
\* right-to-left run of the third
MemoTexts ==
    {<<"a">>,
     <<"!", " ", "a", "meem">>,
     <<"meem", " ", "!", " ">>}

MemoNext ==
    \/ \E f \in FontIds : RegisterFont(f)
    \/ \E o \in Origins, style \in MemoStyles, text \in MemoTexts : ShapeCall(o, style, text)

MemoSpec == Init /\ [][MemoNext]_vars

\* what a Shaper with an empty cache returns for the arguments of the last call
FreshResult == Shape(<<>>, last.origin[1], last.origin[2], fonts, last.style, last.text).result

\* C19: with the font store unchanged since the first shape() call, every
\* call returns what a Shaper with an empty cache returns for its arguments.
C19_Original == LastShape => last.result = FreshResult


\* the words of a text in the order shape() is to visit them: run after run,
\* the words of a right-to-left run from the last to the first
WordsInVisitOrder(text) ==
    LET runs == UnicodeScripts(text)
    IN  Concat([k \in 1..Len(runs) |->
                  IF runs[k].direction = "Rtl"
                  THEN Reverse(SplitInclusive(runs[k].text))
                  ELSE SplitInclusive(runs[k].text)])

\* a glyph as it was before layout placed it
Unplaced(g) == [g EXCEPT !.x = 0, !.y = 0, !.calc_offset_x = 0, !.calc_offset_y = 0]

\* C20: shape() looks the words up run after run in text order, the words of
\* a right-to-left run in reverse; the glyphs it hands to layout are the
\* glyph lists the cache returned for these words, concatenated in this
\* order, each list as it is (one glyph per character of the word when the
\* engine made it so); and the TextLayout returned holds exactly these
\* glyphs in this order, layout having set their position fields only.
C20_GlyphsAreWordListsInOrder ==
    LastShape =>
        /\ [i \in LogIdx |-> last.log[i].word] = WordsInVisitOrder(last.text)
        /\ last.flat = Concat([i \in LogIdx |-> last.log[i].items])
        /\ \A i \in LogIdx : last.log[i].got # "ok" => last.log[i].items = <<>>
        /\ last.result.ok =>
              /\ Len(ResultGlyphs(last.result)) = Len(last.flat)
              /\ \A i \in 1..Len(last.flat) :
                    Unplaced(ResultGlyphs(last.result)[i]) = last.flat[i]

\* a call on a text of a left-to-right run of two words and a right-to-left
\* run, with a word served from the cache, that returned four glyphs in the
\* order of the words
C20_Witness ==
    /\ LastShape
    /\ last.text = <<"!", " ", "a", "meem">>
    /\ last.result.ok
    /\ \E i \in LogIdx : last.log[i].hit
    /\ GlyphChars(ResultGlyphs(last.result)) = <<"!", " ", "a", "meem">>
    /\ ResultGlyphs(last.result)[3].font_id # ResultGlyphs(last.result)[4].font_id


-----------------------------------------------------------------------------
(* The running pen of layout *)

\* the sum of advance_y over the first n glyphs
RECURSIVE AdvanceYSum(_, _)
AdvanceYSum(glyphs, n) ==
    IF n = 0 THEN 0 ELSE AdvanceYSum(glyphs, n - 1) + glyphs[n].advance_y

\* where the pen is before the k-th glyph of the last layout, counted from
\* the glyphs the TextLayout holds
PenX(k) == LastLayout.x + AdvanceSum(LastLayout.glyphs, last.style.letter_spacing, k - 1)
PenY(k) == last.origin[2] + AdvanceYSum(LastLayout.glyphs, k - 1)

\* C21: layout is a single pass with a running pen: the k-th glyph's x is
\* TextLayout.x + the sum over all earlier glyphs of
\* (advance_x + letter_spacing) + its calc_offset_x, its y is the input y +
\* the sum over all earlier glyphs of advance_y + its calc_offset_y + what
\* the baseline adds for its font; and the pen after the last glyph is
\* TextLayout.width to the right of TextLayout.x.
C21_RunningPen ==
    (LastShape /\ last.result.ok) =>
        LET n == Len(LastLayout.glyphs)
        IN  /\ \A k \in 1..n :
                  LET g == LastLayout.glyphs[k]
                  IN  /\ g.x = PenX(k) + g.calc_offset_x
                      /\ g.y = PenY(k) + g.calc_offset_y
                                + BaselineDelta(last.style.baseline, g.font_id, last.style.size)
            /\ PenX(n + 1) - LastLayout.x = LastLayout.width
            /\ n > 0 =>
                  LastLayout.glyphs[n].x - LastLayout.glyphs[n].calc_offset_x
                    + LastLayout.glyphs[n].advance_x + last.style.letter_spacing
                  = LastLayout.x + LastLayout.width

\* a centred layout with letter spacing, a stroke and a Top baseline of three
\* glyphs of two fonts: the third glyph is two advances and two spacings
\* after the layout's x, and the offsets and baseline deltas are not zero
C21_Witness ==
    /\ LastShape
    /\ last.result.ok
    /\ last.style.align = "Center"
    /\ last.style.baseline = "Top"
    /\ last.style.letter_spacing > 0
    /\ Len(LastLayout.glyphs) = 3
    /\ LastLayout.glyphs[1].font_id # LastLayout.glyphs[2].font_id
    /\ LastLayout.glyphs[3].calc_offset_x # 0
    /\ LastLayout.glyphs[3].calc_offset_y # 0
    /\ LastLayout.glyphs[3].x - LastLayout.glyphs[3].calc_offset_x - LastLayout.x
         = LastLayout.glyphs[1].advance_x + LastLayout.glyphs[2].advance_x
           + 2 * last.style.letter_spacing
    /\ LastLayout.x < last.origin[1]


-----------------------------------------------------------------------------
(* The y and the height of the TextLayout *)

\* the least y among the first n glyphs, n > 0
RECURSIVE MinPenY(_, _)
MinPenY(glyphs, n) ==
    IF n = 1 THEN glyphs[1].y ELSE Min(MinPenY(glyphs, n - 1), glyphs[n].y)

\* the greatest line height at a size among the fonts of the first n glyphs,
\* n > 0
RECURSIVE MaxLineHeight(_, _, _)
MaxLineHeight(glyphs, size, n) ==
    IF n = 1 THEN FontHeight(glyphs[1].font_id, size)
    ELSE Max(MaxLineHeight(glyphs, size, n - 1), FontHeight(glyphs[n].font_id, size))

\* the last call returned a TextLayout with glyphs
LaidOutGlyphs == LastShape /\ last.result.ok /\ Len(LastLayout.glyphs) > 0

\* C22 as stated: for a non-empty glyph sequence, the TextLayout.y returned
\* by shape() is the minimum y over all of its glyphs, and TextLayout.height
\* is the maximum line height at the active size over the fonts of its
\* glyphs.
C22_Original ==
    LaidOutGlyphs =>
        /\ LastLayout.y = MinPenY(LastLayout.glyphs, Len(LastLayout.glyphs))
        /\ LastLayout.height
             = MaxLineHeight(LastLayout.glyphs, last.style.size, Len(LastLayout.glyphs))

\* C22, amended: for a non-empty glyph sequence, the TextLayout.y returned
\* by shape() is the minimum of the input y and the y of all of its glyphs,
\* and TextLayout.height is the maximum line height at the active size over
\* the fonts of its glyphs.
C22_YIsMinWithInputY ==
    LaidOutGlyphs =>
        /\ LastLayout.y
             = Min(last.origin[2], MinPenY(LastLayout.glyphs, Len(LastLayout.glyphs)))
        /\ LastLayout.height
             = MaxLineHeight(LastLayout.glyphs, last.style.size, Len(LastLayout.glyphs))

\* a layout of glyphs of two fonts of different line heights, all of them
\* placed below the input y, which the TextLayout has as its y; its height
\* is that of the taller font, which is not the font of the first glyph
C22_Witness ==
    /\ LaidOutGlyphs
    /\ Len(LastLayout.glyphs) = 2
    /\ \A k \in 1..2 : LastLayout.glyphs[k].y > last.origin[2]
    /\ LastLayout.glyphs[1].y # LastLayout.glyphs[2].y
    /\ LastLayout.y = last.origin[2]
    /\ FontHeight(LastLayout.glyphs[1].font_id, last.style.size)
         < FontHeight(LastLayout.glyphs[2].font_id, last.style.size)
    /\ LastLayout.height = FontHeight(LastLayout.glyphs[2].font_id, last.style.size)


-----------------------------------------------------------------------------
(* What the cache stores is not written after its insertion *)

\* every glyph the cache holds is as the resolver made it: layout has set
\* none of its position fields
StoredGlyphsUnplaced ==
    \A i \in 1..Len(cache) :
        cache[i].val.ok =>
            \A n \in 1..Len(cache[i].val.items) :
                Unplaced(cache[i].val.items[n]) = cache[i].val.items[n]

\* in any step, a key the cache holds after the step, unless a shape() call
\* inserted it in this step, was held before the step with the same value
StoredValuesKept ==
    \A i \in 1..Len(cache') :
        LET k == cache'[i].key
        IN  (\/ last'.op # "shape"
             \/ /\ last'.op = "shape"
                /\ \A j \in 1..Len(last'.log) : last'.log[j].hit \/ last'.log[j].key # k)
            => (CacheHas(cache, k) /\ CachePeek(cache, k) = cache'[i].val)

\* C23: cache entries are immutable while stored: layout writes x, y,
\* calc_offset_x and calc_offset_y to copies only, so the value stored under
\* a key is not modified by any shape() call after its insertion, and stays
\* what the resolver returned until it is evicted or the cache is cleared.
C23_StoredValuesImmutable ==
    /\ [](StoredGlyphsUnplaced /\ (LastShape => MissesAreStored))
    /\ [][StoredValuesKept]_vars

\* a call, made after the font store changed, that returned placed glyphs
\* for a word served from the cache: the cache still holds for it the
\* unplaced glyphs stored before the change, which are not what the resolver
\* would return now
C23_Witness ==
    /\ LastShape
    /\ last.stale
    /\ last.result.ok
    /\ \E i \in LogIdx :
          LET e == last.log[i]
          IN  /\ e.hit
              /\ \A j \in Misses : last.log[j].key # e.key
              /\ e.got = "ok"
              /\ CacheHas(cache, e.key)
              /\ CachePeek(cache, e.key).items = e.items
              /\ CachePeek(cache, e.key)
                   # FindFont(e.word, last.style, e.direction, e.script, fonts)
    /\ \E n \in 1..Len(ResultGlyphs(last.result)) :
          /\ ResultGlyphs(last.result)[n].x # 0
          /\ ResultGlyphs(last.result)[n].calc_offset_y # 0


-----------------------------------------------------------------------------
(* A call that fails with NoFontFound *)

\* the last call failed with NoFontFound
FailedNoFont == LastShape /\ ~last.result.ok /\ last.result.err = "NoFontFound"

\* the last call repeats a call that failed with NoFontFound
RepeatsFailed ==
    /\ Repeats
    /\ ~last.prevResult.ok
    /\ last.prevResult.err = "NoFontFound"

\* the cache holds an entry for every word of the last call
AllWordsCached == \A i \in LogIdx : CacheHas(cache, last.log[i].key)

\* C24 as stated: a shape() call that fails with NoFontFound leaves the
\* entries of all of its words cached, and repeating it with an unchanged
\* font store fails with NoFontFound again without any resolver invocation.
C24_Original ==
    /\ FailedNoFont => AllWordsCached
    /\ RepeatsFailed => (FailedNoFont /\ AllHits)

\* C24, amended: a shape() call that fails with NoFontFound does not roll
\* back or remove anything from the cache beyond the evictions of its own
\* insertions: when its words have at most LRU_CACHE_CAPACITY distinct keys,
\* the entries of all of its words are cached after it, each miss holding
\* what the resolver returned, and repeating the call with an unchanged font
\* store and no clear_cache() in between fails with NoFontFound again, with
\* no resolver invocation.
C24_FailureKeepsCache ==
    /\ (FailedNoFont /\ WithinCapacity) => (AllWordsCached /\ MissesAreStored)
    /\ (RepeatsFailed /\ WithinCapacity) => (FailedNoFont /\ AllHits)

\* a call of two distinct keys that failed with NoFontFound a second time,
\* every word of it served from the cache, which holds an entry of a font
\* of the store next to the offending one
C24_Witness ==
    /\ RepeatsFailed
    /\ FailedNoFont
    /\ AllHits
    /\ Cardinality(LogKeys) = 2
    /\ AllWordsCached
    /\ \E i, j \in 1..Len(last.flat) :
          /\ last.flat[i].font_id \in fonts
          /\ last.flat[j].font_id \notin fonts

=============================================================================
